---- MODULE Spec2Model ----
(***************************************************************************)
(* Recording controller of src-tauri/src/commands/audio.rs: the two        *)
(* process-wide atomics IS_RECORDING and STOP_SIGNAL, the lock-guarded      *)
(* RAW_AUDIO buffer, the async commands start_recording and stop_recording *)
(* (run by concurrent callers of the async runtime), the capture thread    *)
(* spawned by start_recording and the input-stream data callback.          *)
(* Every atomic load/store and every lock acquisition is a step of its     *)
(* own; thread-local computation is folded into the neighbouring step.     *)
(* No step panics, so the mutex is never poisoned and the "Lock poisoned"  *)
(* returns of lines 72 and 198 are not taken.                              *)
(*                                                                         *)
(* PipelineSpec follows one stop_recording call from the cloned samples on *)
(* (downmix, resampling, WAV encoding, one write_sample per step) with the *)
(* f32 arithmetic of the code, and then the transcribe_and_delete call of  *)
(* src-tauri/src/commands/transcription.rs on the path it returned.        *)
(***************************************************************************)
EXTENDS Integers, Sequences, FiniteSets, TLC

\* ---------------------------------------------------------------- bounds
\* Number of start_recording invocations.
MaxStarts == 2
\* Number of stop_recording invocations.
MaxStops == 1
\* Total number of blocks the audio driver delivers to data callbacks.
MaxBlocks == 2

\* Longest raw sample sequence a stop is given to encode.
MaxSamples == 3
\* Largest channel count of an input device.
MaxChannels == 3

\* ------------------------------------------------------ program constants
TARGET_SAMPLE_RATE == 16000
\* `for _ in 0..100` in stop_recording.
PollLimit == 100
\* chunk_size of resample_to_16k.
chunk_size == 1024

\* The async call sites that may run a command at the same time.
Callers == {"ui", "shortcut"}

\* What cpal may report as the default input configuration
\* (sample rate, channels, sample format).
DeviceConfigs ==
    { [rate |-> 16000, channels |-> 1, fmt |-> "F32"],
      [rate |-> 48000, channels |-> 2, fmt |-> "I16"],
      [rate |-> 48000, channels |-> 2, fmt |-> "U16"] }

NoConfig == [rate |-> 0, channels |-> 0, fmt |-> "none"]

\* ------------------------------------------------------------ f32 samples
\* A finite f32 is [m, e], standing for m * 2^e: zero is [0, 0], any other
\* value has 2^23 <= |m| < 2^24. The exponent range is not limited (no
\* sample here comes near the largest or the smallest f32), and NaN and the
\* infinities are left out.
F32_MANTISSA_DIGITS == 24
\* i16::MAX of lines 131 and 251.
I16_MAX == 32767
I16_MIN == -32768

Abs(n) == IF n < 0 THEN -n ELSE n
Sign(n) == IF n < 0 THEN -1 ELSE 1

\* Number of binary digits of n >= 0.
BitLen(n) == CHOOSE k \in 0..31 : IF k = 0 THEN n = 0
                                   ELSE 2^(k-1) <= n /\ (k = 31 \/ n < 2^k)

\* n / 2^k rounded to the nearest integer, ties to even (n >= 0, k >= 1).
RoundHalfEven(n, k) ==
    LET q == n \div 2^k
        r == n % 2^k
        h == 2^(k-1)
    IN  IF r > h \/ (r = h /\ q % 2 = 1) THEN q + 1 ELSE q

\* The f32 nearest to M * 2^e (round to nearest, ties to even).
F32(M, e) ==
    IF M = 0 THEN [m |-> 0, e |-> 0]
    ELSE LET n == Abs(M)
             L == BitLen(n)
             k == L - F32_MANTISSA_DIGITS
         IN  IF k <= 0 THEN [m |-> M * 2^(-k), e |-> e + k]
             ELSE LET q == RoundHalfEven(n, k)
                  IN  IF q = 2^F32_MANTISSA_DIGITS
                      THEN [m |-> Sign(M) * 2^(F32_MANTISSA_DIGITS - 1), e |-> e + k + 1]
                      ELSE [m |-> Sign(M) * q, e |-> e + k]

\* f32 addition: the exact sum, rounded once. The operand of larger exponent
\* gets six more digits; the digits of the other operand below them are
\* folded into the lowest digit (sticky).
f32_add(a, b) ==
    IF a.m = 0 THEN b
    ELSE IF b.m = 0 THEN a
    ELSE LET hi == IF a.e >= b.e THEN a ELSE b
             lo == IF a.e >= b.e THEN b ELSE a
             d == hi.e - lo.e
             n == Abs(lo.m)
             low == IF d <= 6 THEN n * 2^(6 - d)
                    ELSE IF d - 6 > F32_MANTISSA_DIGITS THEN 1
                    ELSE LET t == n \div 2^(d - 6)
                         IN  IF n % 2^(d - 6) # 0 /\ t % 2 = 0 THEN t + 1 ELSE t
         IN  F32(hi.m * 64 + Sign(lo.m) * low, hi.e - 6)

\* a / (n as f32) for a small count n (1 <= n <= 8): the exact quotient,
\* rounded once.
f32_div_len(a, n) ==
    IF a.m = 0 THEN a
    ELSE LET N == Abs(a.m) * 64
             q == N \div n
             qs == IF N % n # 0 /\ q % 2 = 0 THEN q + 1 ELSE q
         IN  F32(Sign(a.m) * qs, a.e - 6)

\* frame.iter().sum::<f32>(): the samples added from the left.
RECURSIVE f32_sum(_)
f32_sum(frame) ==
    IF frame = <<>> THEN [m |-> 0, e |-> 0]
    ELSE f32_add(f32_sum(SubSeq(frame, 1, Len(frame) - 1)), frame[Len(frame)])

\* Lines 218-221: raw_samples.chunks(native_channels) (the last chunk may be
\* short), each chunk averaged.
chunks(raw, size) ==
    [k \in 1..((Len(raw) + size - 1) \div size) |->
        SubSeq(raw, (k - 1) * size + 1,
               IF k * size < Len(raw) THEN k * size ELSE Len(raw))]

\* downmix that sums each frame and does not divide by its length.
downmix_Sum(raw, channels) ==
    [k \in 1..Len(chunks(raw, channels)) |-> f32_sum(chunks(raw, channels)[k])]

downmix(raw, channels) ==
    [k \in 1..Len(chunks(raw, channels)) |->
        f32_div_len(f32_sum(chunks(raw, channels)[k]), Len(chunks(raw, channels)[k]))]

\* 1.0f32 and its negation.
F32_ONE == [m |-> 2^(F32_MANTISSA_DIGITS - 1), e |-> 1 - F32_MANTISSA_DIGITS]
f32_neg(a) == [m |-> -a.m, e |-> a.e]

\* a > 1.0 and a < -1.0.
f32_gt_one(a) == a.m > 0 /\ (a.e > F32_ONE.e \/ (a.e = F32_ONE.e /\ a.m > F32_ONE.m))
f32_lt_minus_one(a) == f32_gt_one(f32_neg(a))

\* Line 250: sample.clamp(-1.0, 1.0).
clamp(a) ==
    IF f32_gt_one(a) THEN F32_ONE
    ELSE IF f32_lt_minus_one(a) THEN f32_neg(F32_ONE)
    ELSE a

\* a * (i16::MAX as f32): the exact product a * 2^15 - a, rounded once.
f32_mul_i16_max(a) == f32_add([m |-> a.m, e |-> a.e + 15], f32_neg(a))

\* `as i16` on an f32: truncation toward zero, saturating at the i16 range.
as_i16(a) ==
    IF a.m = 0 THEN 0
    ELSE IF a.e >= 0 THEN (IF a.m > 0 THEN I16_MAX ELSE I16_MIN)
    ELSE LET t == IF -a.e > 30 THEN 0 ELSE Abs(a.m) \div 2^(-a.e)
             v == Sign(a.m) * t
         IN  IF v > I16_MAX THEN I16_MAX ELSE IF v < I16_MIN THEN I16_MIN ELSE v

\* quantize without the clamp of line 250.
quantize_Unclamped(sample) == as_i16(f32_mul_i16_max(sample))

\* Lines 250-251: one sample quantized for the writer.
quantize(sample) == as_i16(f32_mul_i16_max(clamp(sample)))

VARIABLES
    IS_RECORDING,   \* static AtomicBool
    STOP_SIGNAL,    \* static AtomicBool
    RAW_AUDIO,      \* RawAudio behind the mutex: samples, native rate, channels
    lock,           \* holder of the RAW_AUDIO mutex: "none" or a caller
    pc,             \* per caller: position inside the running command
    cfg,            \* per caller: native format held by the running command
    polls,          \* per caller: iterations of stop_recording's poll loop done
    taken,          \* per caller: `raw_samples` cloned by stop_recording
    wav,            \* per caller: index in files of the WAV being written, or 0
    result,         \* per caller: what the last finished command returned
    threads,        \* capture threads spawned so far, in spawn order
    files,          \* WAV files in the cache directory: "open" | "finalized"
    delivered,      \* number of blocks delivered by the driver so far
    nstarts,        \* start_recording invocations so far
    nstops,         \* stop_recording invocations so far
    hist            \* history of the run (observations only, never read by the code)

\* One stop_recording call from line 195 on, sample by sample, and the
\* transcribe_and_delete call that is given the path it returned.
VARIABLES
    stage,            \* position in the two calls; "idle" when none is followed
    raw_samples,      \* stop_recording: the cloned samples (f32)
    native_rate,      \* stop_recording: the cloned native sample rate
    native_channels,  \* stop_recording: the cloned native channel count
    mono,             \* stop_recording: the downmixed samples
    resampler,        \* the rubato resampler: "unused" | "used" | "failed"
    resampled,        \* stop_recording: the samples handed to the encoder
    written,          \* the i16 values write_sample has accepted, in order
    wav_file,         \* the file at wav_path: "none" | "open" | "finalized" | "removed"
    stop_result,      \* what stop_recording returned
    transcription     \* transcribe_and_delete: its result, and whether it called remove_file

pipeline == <<stage, raw_samples, native_rate, native_channels, mono, resampler,
              resampled, written, wav_file, stop_result, transcription>>

controller == <<IS_RECORDING, STOP_SIGNAL, RAW_AUDIO, lock, pc, cfg, polls, taken, wav,
                result, threads, files, delivered, nstarts, nstops, hist>>

vars == <<IS_RECORDING, STOP_SIGNAL, RAW_AUDIO, lock, pc, cfg, polls, taken, wav,
          result, threads, files, delivered, nstarts, nstops, hist, pipeline>>

shared == <<IS_RECORDING, STOP_SIGNAL, RAW_AUDIO, lock, threads, files>>

\* ------------------------------------------------------------------ Init
\* get_raw_audio(): the buffer as first created.
get_raw_audio == [samples |-> <<>>, native_sample_rate |-> 0, native_channels |-> 0]

NoHist ==
    [ lastOk    |-> FALSE,  \* a start returned Ok and no stop was called since
      cleared   |-> FALSE,  \* a capture thread stored false since the last store(true)
      fresh     |-> [c \in Callers |-> FALSE],   \* no store(true) since c's stop passed its check
      exit      |-> [c \in Callers |-> "none"],  \* how c's stop left its poll loop
      signalled |-> [c \in Callers |-> FALSE],   \* c's stop stored STOP_SIGNAL = true
      didReset  |-> [c \in Callers |-> FALSE],   \* c's start reset the buffer
      didFlags  |-> [c \in Callers |-> FALSE] ]  \* c's start stored both flags

\* No stop_recording call is followed sample by sample.
NoPipeline ==
    /\ stage = "idle"
    /\ raw_samples = <<>>
    /\ native_rate = 0
    /\ native_channels = 0
    /\ mono = <<>>
    /\ resampler = "unused"
    /\ resampled = <<>>
    /\ written = <<>>
    /\ wav_file = "none"
    /\ stop_result = "none"
    /\ transcription = [result |-> "none", remove_file |-> FALSE]

ControllerInit ==
    /\ IS_RECORDING = FALSE
    /\ STOP_SIGNAL = FALSE
    /\ RAW_AUDIO = get_raw_audio
    /\ lock = "none"
    /\ pc = [c \in Callers |-> "idle"]
    /\ cfg = [c \in Callers |-> NoConfig]
    /\ polls = [c \in Callers |-> 0]
    /\ taken = [c \in Callers |-> <<>>]
    /\ wav = [c \in Callers |-> 0]
    /\ result = [c \in Callers |-> "none"]
    /\ threads = <<>>
    /\ files = <<>>
    /\ delivered = 0
    /\ nstarts = 0
    /\ nstops = 0
    /\ hist = NoHist

Init == ControllerInit /\ NoPipeline

\* A command returns r to caller c: its locals are gone.
Return(c, r) ==
    /\ pc' = [pc EXCEPT ![c] = "idle"]
    /\ result' = [result EXCEPT ![c] = r]
    /\ cfg' = [cfg EXCEPT ![c] = NoConfig]
    /\ polls' = [polls EXCEPT ![c] = 0]
    /\ taken' = [taken EXCEPT ![c] = <<>>]
    /\ wav' = [wav EXCEPT ![c] = 0]

\* The history h once c's command is over: what was observed of its steps is dropped.
Left(c, h) ==
    [h EXCEPT !.exit[c] = "none", !.signalled[c] = FALSE,
              !.didReset[c] = FALSE, !.didFlags[c] = FALSE]

\* --------------------------------------------------------- start_recording
\* StartCheck without the early return of lines 45-47.
StartCheck_Unguarded(c) ==
    /\ pc[c] = "idle"
    /\ nstarts < MaxStarts
    /\ nstarts' = nstarts + 1
    /\ UNCHANGED <<shared, delivered, nstops>>
    /\ hist' = [hist EXCEPT !.fresh[c] = FALSE]
    /\ \/ \E d \in DeviceConfigs :
            /\ pc' = [pc EXCEPT ![c] = "start_lock"]
            /\ cfg' = [cfg EXCEPT ![c] = d]
            /\ result' = [result EXCEPT ![c] = "none"]
            /\ UNCHANGED <<polls, taken, wav>>
       \/ \E e \in {"NoInputDevice", "ConfigError"} : Return(c, e)
    /\ UNCHANGED pipeline

\* StartCheck with the buffer reset of lines 73-76 moved ahead of the device
\* pre-check: a failed pre-check has already cleared the samples.
StartCheck_ResetsFirst(c) ==
    /\ pc[c] = "idle"
    /\ nstarts < MaxStarts
    /\ nstarts' = nstarts + 1
    /\ UNCHANGED <<IS_RECORDING, STOP_SIGNAL, lock, threads, files, delivered, nstops>>
    /\ hist' = [hist EXCEPT !.fresh[c] = FALSE]
    /\ IF IS_RECORDING
       THEN /\ Return(c, "AlreadyRecording")
            /\ UNCHANGED RAW_AUDIO
       ELSE \/ \E d \in DeviceConfigs :
                 /\ pc' = [pc EXCEPT ![c] = "start_lock"]
                 /\ cfg' = [cfg EXCEPT ![c] = d]
                 /\ result' = [result EXCEPT ![c] = "none"]
                 /\ UNCHANGED <<polls, taken, wav, RAW_AUDIO>>
            \/ /\ \E e \in {"NoInputDevice", "ConfigError"} : Return(c, e)
               /\ RAW_AUDIO' = [RAW_AUDIO EXCEPT !.samples = <<>>]
    /\ UNCHANGED pipeline

\* Lines 45-56: the IS_RECORDING check and the device pre-check.
StartCheck(c) ==
    /\ pc[c] = "idle"
    /\ nstarts < MaxStarts
    /\ nstarts' = nstarts + 1
    /\ UNCHANGED <<shared, delivered, nstops>>
    /\ hist' = [hist EXCEPT !.fresh[c] = FALSE]
    /\ IF IS_RECORDING
       THEN Return(c, "AlreadyRecording")
       ELSE \/ \E d \in DeviceConfigs :
                 /\ pc' = [pc EXCEPT ![c] = "start_lock"]
                 /\ cfg' = [cfg EXCEPT ![c] = d]
                 /\ result' = [result EXCEPT ![c] = "none"]
                 /\ UNCHANGED <<polls, taken, wav>>
            \/ \E e \in {"NoInputDevice", "ConfigError"} : Return(c, e)
    /\ UNCHANGED pipeline

\* Lines 70-72: get_raw_audio().lock() (blocking).
StartLock(c) ==
    /\ pc[c] = "start_lock"
    /\ lock = "none"
    /\ lock' = c
    /\ pc' = [pc EXCEPT ![c] = "start_reset"]
    /\ UNCHANGED <<IS_RECORDING, STOP_SIGNAL, RAW_AUDIO, cfg, polls, taken, wav,
                   result, threads, files, delivered, nstarts, nstops, hist>>
    /\ UNCHANGED pipeline

\* StartReset with the reset of lines 73-76 left out (the lock is taken and
\* released around nothing).
StartReset_Skipped(c) ==
    /\ pc[c] = "start_reset"
    /\ lock = c
    /\ lock' = "none"
    /\ pc' = [pc EXCEPT ![c] = "start_stop_signal"]
    /\ UNCHANGED <<IS_RECORDING, STOP_SIGNAL, RAW_AUDIO, cfg, polls, taken, wav, result,
                   threads, files, delivered, nstarts, nstops, hist>>
    /\ UNCHANGED pipeline

\* Lines 73-77: clear the samples, store the native format, release the lock.
StartReset(c) ==
    /\ pc[c] = "start_reset"
    /\ lock = c
    /\ RAW_AUDIO' = [samples |-> <<>>,
                     native_sample_rate |-> cfg[c].rate,
                     native_channels |-> cfg[c].channels]
    /\ lock' = "none"
    /\ pc' = [pc EXCEPT ![c] = "start_stop_signal"]
    /\ hist' = [hist EXCEPT !.didReset[c] = TRUE]
    /\ UNCHANGED <<IS_RECORDING, STOP_SIGNAL, cfg, polls, taken, wav, result,
                   threads, files, delivered, nstarts, nstops>>
    /\ UNCHANGED pipeline

\* Line 80: STOP_SIGNAL.store(false).
StartStoreStop(c) ==
    /\ pc[c] = "start_stop_signal"
    /\ STOP_SIGNAL' = FALSE
    /\ pc' = [pc EXCEPT ![c] = "start_is_recording"]
    /\ UNCHANGED <<IS_RECORDING, RAW_AUDIO, lock, cfg, polls, taken, wav, result,
                   threads, files, delivered, nstarts, nstops, hist>>
    /\ UNCHANGED pipeline

\* StartStoreRec with the store of line 81 left out.
StartStoreRec_Skipped(c) ==
    /\ pc[c] = "start_is_recording"
    /\ pc' = [pc EXCEPT ![c] = "start_spawn"]
    /\ hist' = [hist EXCEPT !.didFlags[c] = TRUE]
    /\ UNCHANGED <<IS_RECORDING, STOP_SIGNAL, RAW_AUDIO, lock, cfg, polls, taken, wav,
                   result, threads, files, delivered, nstarts, nstops>>
    /\ UNCHANGED pipeline

\* Line 81: IS_RECORDING.store(true).
StartStoreRec(c) ==
    /\ pc[c] = "start_is_recording"
    /\ IS_RECORDING' = TRUE
    /\ pc' = [pc EXCEPT ![c] = "start_spawn"]
    /\ hist' = [hist EXCEPT !.cleared = FALSE, !.didFlags[c] = TRUE,
                            !.fresh = [d \in Callers |-> FALSE]]
    /\ UNCHANGED <<STOP_SIGNAL, RAW_AUDIO, lock, cfg, polls, taken, wav, result,
                   threads, files, delivered, nstarts, nstops>>
    /\ UNCHANGED pipeline

\* A freshly spawned capture thread; sample_format is moved into the closure.
\* reset and flags record what its start_recording had done when it spawned it.
NewThread(c) ==
    [ pc |-> "setup", sample_format |-> cfg[c].fmt,
      reset |-> hist.didReset[c], flags |-> hist.didFlags[c] ]

\* Lines 86-174: std::thread::spawn(..) and return Ok(()).
StartSpawn(c) ==
    /\ pc[c] = "start_spawn"
    /\ threads' = Append(threads, NewThread(c))
    /\ Return(c, "Ok")
    /\ hist' = Left(c, [hist EXCEPT !.lastOk = TRUE])
    /\ UNCHANGED <<IS_RECORDING, STOP_SIGNAL, RAW_AUDIO, lock, files, delivered, nstarts, nstops>>
    /\ UNCHANGED pipeline

start_recording(c) ==
    \/ StartCheck(c)
    \/ StartLock(c)
    \/ StartReset(c)
    \/ StartStoreStop(c)
    \/ StartStoreRec(c)
    \/ StartSpawn(c)

\* ---------------------------------------------------------- capture thread
callerVars == <<pc, cfg, polls, taken, wav, result, nstarts, nstops>>

\* The cpal::Stream a capture thread owns: built by build_input_stream
\* (line 146), playing after play() (line 155), gone once dropped.
Stream(t) ==
    CASE threads[t].pc \in {"play", "return"} -> "built"
      [] threads[t].pc \in {"poll", "drop"}   -> "playing"
      [] OTHER                                -> "none"

\* The thread's closure has returned: "failed" from an error branch, "done"
\* from the end of the closure.
Exited(t) == threads[t].pc \in {"failed", "done"}

\* IS_RECORDING.store(false), as written on lines 92, 100, 141, 150, 157, 169.
ThreadStoreFalse ==
    /\ IS_RECORDING' = FALSE
    /\ hist' = [hist EXCEPT !.cleared = TRUE]

\* ThreadSetup whose unsupported-format branch (lines 139-143) returns
\* without storing IS_RECORDING = false.
ThreadSetup_FormatKeepsFlag(t) ==
    /\ threads[t].pc = "setup"
    /\ UNCHANGED <<STOP_SIGNAL, RAW_AUDIO, lock, files, delivered, callerVars>>
    /\ \/ /\ \E why \in {"no_device", "config_error", "build_failed"} :
               threads' = [threads EXCEPT ![t].pc = "failed", ![t].sample_format = "none"]
          /\ ThreadStoreFalse
       \/ /\ threads[t].sample_format \notin {"F32", "I16"}
          /\ threads' = [threads EXCEPT ![t].pc = "failed", ![t].sample_format = "none"]
          /\ UNCHANGED <<IS_RECORDING, hist>>
       \/ /\ threads[t].sample_format \in {"F32", "I16"}
          /\ threads' = [threads EXCEPT ![t].pc = "play", ![t].sample_format = "none"]
          /\ UNCHANGED <<IS_RECORDING, hist>>
    /\ UNCHANGED pipeline

\* Lines 87-153: device, config, sample format and build_input_stream; every
\* failure stores IS_RECORDING = false and returns. sample_format is consumed
\* by the match on line 110 and is not read again.
ThreadSetup(t) ==
    /\ threads[t].pc = "setup"
    /\ UNCHANGED <<STOP_SIGNAL, RAW_AUDIO, lock, files, delivered, callerVars>>
    /\ \/ /\ \E why \in {"no_device", "config_error", "build_failed"} :
               threads' = [threads EXCEPT ![t].pc = "failed", ![t].sample_format = "none"]
          /\ ThreadStoreFalse
       \/ /\ threads[t].sample_format \notin {"F32", "I16"}
          /\ threads' = [threads EXCEPT ![t].pc = "failed", ![t].sample_format = "none"]
          /\ ThreadStoreFalse
       \/ /\ threads[t].sample_format \in {"F32", "I16"}
          /\ threads' = [threads EXCEPT ![t].pc = "play", ![t].sample_format = "none"]
          /\ UNCHANGED <<IS_RECORDING, hist>>
    /\ UNCHANGED pipeline

\* Lines 155-161: stream.play(); on failure IS_RECORDING = false is stored
\* while the local `stream` is still alive (the return drops it).
ThreadPlay(t) ==
    /\ threads[t].pc = "play"
    /\ UNCHANGED <<STOP_SIGNAL, RAW_AUDIO, lock, files, delivered, callerVars>>
    /\ \/ /\ threads' = [threads EXCEPT ![t].pc = "return"]
          /\ ThreadStoreFalse
       \/ /\ threads' = [threads EXCEPT ![t].pc = "poll"]
          /\ UNCHANGED <<IS_RECORDING, hist>>
    /\ UNCHANGED pipeline

\* Line 158: the return after a failed play() drops the stream.
ThreadReturn(t) ==
    /\ threads[t].pc = "return"
    /\ threads' = [threads EXCEPT ![t].pc = "failed"]
    /\ UNCHANGED <<IS_RECORDING, STOP_SIGNAL, RAW_AUDIO, lock, files, delivered,
                   callerVars, hist>>
    /\ UNCHANGED pipeline

\* Lines 164-166: the loop ends once STOP_SIGNAL is loaded true.
ThreadPoll(t) ==
    /\ threads[t].pc = "poll"
    /\ STOP_SIGNAL
    /\ threads' = [threads EXCEPT ![t].pc = "drop"]
    /\ UNCHANGED <<IS_RECORDING, STOP_SIGNAL, RAW_AUDIO, lock, files, delivered,
                   callerVars, hist>>
    /\ UNCHANGED pipeline

\* Line 168: drop(stream).
ThreadDrop(t) ==
    /\ threads[t].pc = "drop"
    /\ threads' = [threads EXCEPT ![t].pc = "clear"]
    /\ UNCHANGED <<IS_RECORDING, STOP_SIGNAL, RAW_AUDIO, lock, files, delivered,
                   callerVars, hist>>
    /\ UNCHANGED pipeline

\* Line 169: IS_RECORDING.store(false), then the closure ends.
ThreadClear(t) ==
    /\ threads[t].pc = "clear"
    /\ threads' = [threads EXCEPT ![t].pc = "done"]
    /\ ThreadStoreFalse
    /\ UNCHANGED <<STOP_SIGNAL, RAW_AUDIO, lock, files, delivered, callerVars>>
    /\ UNCHANGED pipeline

\* DataCallback that takes the lock with lock() instead of try_lock(): it
\* waits while a command holds the lock, and then appends.
DataCallback_Blocking(t) ==
    /\ Stream(t) = "playing"
    /\ delivered < MaxBlocks
    /\ lock = "none"
    /\ delivered' = delivered + 1
    /\ RAW_AUDIO' = [RAW_AUDIO EXCEPT
            !.samples = Append(@, [by |-> t, seq |-> delivered + 1])]
    /\ UNCHANGED <<IS_RECORDING, STOP_SIGNAL, lock, threads, files, callerVars, hist>>
    /\ UNCHANGED pipeline

\* Lines 115-119 and 128-134: the data callback of a playing stream, run by
\* the driver's thread: try_lock, append the block, unlock; a contended lock
\* drops the block.
DataCallback(t) ==
    /\ Stream(t) = "playing"
    /\ delivered < MaxBlocks
    /\ delivered' = delivered + 1
    /\ IF lock = "none"
       THEN RAW_AUDIO' = [RAW_AUDIO EXCEPT
                !.samples = Append(@, [by |-> t, seq |-> delivered + 1])]
       ELSE UNCHANGED RAW_AUDIO
    /\ UNCHANGED <<IS_RECORDING, STOP_SIGNAL, lock, threads, files, callerVars, hist>>
    /\ UNCHANGED pipeline

capture_thread(t) ==
    \/ ThreadSetup(t)
    \/ ThreadPlay(t)
    \/ ThreadReturn(t)
    \/ ThreadPoll(t)
    \/ ThreadDrop(t)
    \/ ThreadClear(t)

\* ---------------------------------------------------------- stop_recording
\* StopCheck without the early return of lines 181-183.
StopCheck_Unguarded(c) ==
    /\ pc[c] = "idle"
    /\ nstops < MaxStops
    /\ nstops' = nstops + 1
    /\ UNCHANGED <<shared, delivered, nstarts>>
    /\ pc' = [pc EXCEPT ![c] = "stop_signal"]
    /\ result' = [result EXCEPT ![c] = "none"]
    /\ hist' = [hist EXCEPT !.lastOk = FALSE, !.fresh[c] = TRUE]
    /\ UNCHANGED <<cfg, polls, taken, wav>>
    /\ UNCHANGED pipeline

\* Lines 181-183: the IS_RECORDING check.
StopCheck(c) ==
    /\ pc[c] = "idle"
    /\ nstops < MaxStops
    /\ nstops' = nstops + 1
    /\ UNCHANGED <<shared, delivered, nstarts>>
    /\ IF ~IS_RECORDING
       THEN /\ Return(c, "NotRecording")
            /\ hist' = [hist EXCEPT !.fresh[c] = FALSE]
       ELSE /\ pc' = [pc EXCEPT ![c] = "stop_signal"]
            /\ result' = [result EXCEPT ![c] = "none"]
            /\ hist' = [hist EXCEPT !.lastOk = FALSE, !.fresh[c] = TRUE]
            /\ UNCHANGED <<cfg, polls, taken, wav>>
    /\ UNCHANGED pipeline

\* Line 185: STOP_SIGNAL.store(true).
StopSignal(c) ==
    /\ pc[c] = "stop_signal"
    /\ STOP_SIGNAL' = TRUE
    /\ pc' = [pc EXCEPT ![c] = "stop_poll"]
    /\ hist' = [hist EXCEPT !.signalled[c] = TRUE]
    /\ UNCHANGED <<IS_RECORDING, RAW_AUDIO, lock, cfg, polls, taken, wav, result,
                   threads, files, delivered, nstarts, nstops>>
    /\ UNCHANGED pipeline

\* StopPoll as a loop without an iteration limit: `while IS_RECORDING { sleep }`.
StopPoll_Unbounded(c) ==
    /\ pc[c] = "stop_poll"
    /\ UNCHANGED <<shared, cfg, taken, wav, result, delivered, nstarts, nstops>>
    /\ IF ~IS_RECORDING
       THEN /\ pc' = [pc EXCEPT ![c] = "stop_lock"]
            /\ polls' = [polls EXCEPT ![c] = 0]
            /\ hist' = [hist EXCEPT !.exit[c] = "observed"]
       ELSE /\ polls' = [polls EXCEPT ![c] = IF @ < PollLimit THEN @ + 1 ELSE @]
            /\ UNCHANGED <<pc, hist>>
    /\ UNCHANGED pipeline

\* StopPoll that gives up after a single iteration.
StopPoll_OneShot(c) ==
    /\ pc[c] = "stop_poll"
    /\ UNCHANGED <<shared, cfg, taken, wav, result, delivered, nstarts, nstops>>
    /\ pc' = [pc EXCEPT ![c] = "stop_lock"]
    /\ polls' = [polls EXCEPT ![c] = 0]
    /\ hist' = [hist EXCEPT !.exit[c] = IF ~IS_RECORDING THEN "observed" ELSE "gave_up"]
    /\ UNCHANGED pipeline

\* Lines 188-193: one iteration of the poll loop (load, then break or sleep),
\* or the exit of the loop after PollLimit iterations. The loop counter is
\* gone once the loop is left.
StopPoll(c) ==
    /\ pc[c] = "stop_poll"
    /\ UNCHANGED <<shared, cfg, taken, wav, result, delivered, nstarts, nstops>>
    /\ IF polls[c] < PollLimit
       THEN IF ~IS_RECORDING
            THEN /\ pc' = [pc EXCEPT ![c] = "stop_lock"]
                 /\ polls' = [polls EXCEPT ![c] = 0]
                 /\ hist' = [hist EXCEPT !.exit[c] = "observed"]
            ELSE /\ polls' = [polls EXCEPT ![c] = @ + 1]
                 /\ UNCHANGED <<pc, hist>>
       ELSE /\ pc' = [pc EXCEPT ![c] = "stop_lock"]
            /\ polls' = [polls EXCEPT ![c] = 0]
            /\ hist' = [hist EXCEPT !.exit[c] = "timeout"]
    /\ UNCHANGED pipeline

\* Lines 196-198: get_raw_audio().lock() (blocking).
StopLock(c) ==
    /\ pc[c] = "stop_lock"
    /\ lock = "none"
    /\ lock' = c
    /\ pc' = [pc EXCEPT ![c] = "stop_read"]
    /\ UNCHANGED <<IS_RECORDING, STOP_SIGNAL, RAW_AUDIO, cfg, polls, taken, wav,
                   result, threads, files, delivered, nstarts, nstops, hist>>
    /\ UNCHANGED pipeline

\* StopRead without the is_empty() check of lines 206-208.
StopRead_NoEmptyCheck(c) ==
    /\ pc[c] = "stop_read"
    /\ lock = c
    /\ lock' = "none"
    /\ UNCHANGED <<IS_RECORDING, STOP_SIGNAL, RAW_AUDIO, threads, files, delivered, nstarts, nstops>>
    /\ taken' = [taken EXCEPT ![c] = RAW_AUDIO.samples]
    /\ cfg' = [cfg EXCEPT ![c] = [rate |-> RAW_AUDIO.native_sample_rate,
                                  channels |-> RAW_AUDIO.native_channels,
                                  fmt |-> "none"]]
    /\ pc' = [pc EXCEPT ![c] = "stop_create"]
    /\ UNCHANGED <<polls, wav, result, hist>>
    /\ UNCHANGED pipeline

\* Lines 199-208: clone samples and format, release the lock, fail on an
\* empty buffer. The buffer itself is left as it is.
StopRead(c) ==
    /\ pc[c] = "stop_read"
    /\ lock = c
    /\ lock' = "none"
    /\ UNCHANGED <<IS_RECORDING, STOP_SIGNAL, RAW_AUDIO, threads, files, delivered, nstarts, nstops>>
    /\ IF RAW_AUDIO.samples = <<>>
       THEN /\ Return(c, "NoAudioCaptured")
            /\ hist' = Left(c, hist)
       ELSE /\ taken' = [taken EXCEPT ![c] = RAW_AUDIO.samples]
            /\ cfg' = [cfg EXCEPT ![c] = [rate |-> RAW_AUDIO.native_sample_rate,
                                          channels |-> RAW_AUDIO.native_channels,
                                          fmt |-> "none"]]
            /\ pc' = [pc EXCEPT ![c] = "stop_create"]
            /\ UNCHANGED <<polls, wav, result, hist>>
    /\ UNCHANGED pipeline

\* Lines 217-247: downmix, resample when the native rate is not the target
\* rate, cache directory, hound::WavWriter::create at a fresh time-derived path.
StopCreate(c) ==
    /\ pc[c] = "stop_create"
    /\ UNCHANGED <<IS_RECORDING, STOP_SIGNAL, RAW_AUDIO, lock, threads, delivered, nstarts, nstops>>
    /\ \/ /\ cfg[c].rate # TARGET_SAMPLE_RATE
          /\ Return(c, "ResampleError")
          /\ hist' = Left(c, hist)
          /\ UNCHANGED files
       \/ /\ \E e \in {"CacheDirError", "CreateWavError"} : Return(c, e)
          /\ hist' = Left(c, hist)
          /\ UNCHANGED files
       \/ /\ files' = Append(files, "open")
          /\ wav' = [wav EXCEPT ![c] = Len(files) + 1]
          /\ pc' = [pc EXCEPT ![c] = "stop_write"]
          /\ UNCHANGED <<cfg, polls, taken, result, hist>>
    /\ UNCHANGED pipeline

\* Lines 249-270: write every sample, finalize, return the path.
StopWrite(c) ==
    /\ pc[c] = "stop_write"
    /\ UNCHANGED <<IS_RECORDING, STOP_SIGNAL, RAW_AUDIO, lock, threads, delivered, nstarts, nstops>>
    /\ hist' = Left(c, hist)
    /\ \/ /\ \E e \in {"WriteError", "FinalizeError"} : Return(c, e)
          /\ UNCHANGED files
       \/ /\ files' = [files EXCEPT ![wav[c]] = "finalized"]
          /\ \E r \in {"PathNotUtf8", "Path"} : Return(c, r)
    /\ UNCHANGED pipeline

stop_recording(c) ==
    \/ StopCheck(c)
    \/ StopSignal(c)
    \/ StopPoll(c)
    \/ StopLock(c)
    \/ StopRead(c)
    \/ StopCreate(c)
    \/ StopWrite(c)

\* ------------------------------------------------------------------- Next
Next ==
    \/ \E c \in Callers : start_recording(c)
    \/ \E c \in Callers : stop_recording(c)
    \/ \E t \in 1..Len(threads) : capture_thread(t)
    \/ \E t \in 1..Len(threads) : DataCallback(t)

Spec == Init /\ [][Next]_vars

\* The async runtime runs a command that has been invoked to its return; a
\* mutex that is released is eventually acquired. Nothing is assumed of the
\* capture thread or of the audio driver, which may hang.
InStart(c) == pc[c] \in {"start_lock", "start_reset", "start_stop_signal",
                         "start_is_recording", "start_spawn"}
InStop(c) == pc[c] \in {"stop_signal", "stop_poll", "stop_lock", "stop_read",
                        "stop_create", "stop_write"}

Running(c) == (InStart(c) /\ start_recording(c)) \/ (InStop(c) /\ stop_recording(c))

\* The controller driven from one call site only: the commands follow one
\* another, while the capture threads and the driver run alongside them.
SoloNext ==
    \/ start_recording("ui")
    \/ stop_recording("ui")
    \/ \E t \in 1..Len(threads) : capture_thread(t)
    \/ \E t \in 1..Len(threads) : DataCallback(t)

SoloFairSpec == Init /\ [][SoloNext]_vars /\ WF_vars(Running("ui"))

\* ------------------------------------ stop_recording, sample by sample
\* Sample values a device or the resampler may produce: 0.0, 1.0,
\* 0.66666675 (11184814 * 2^-24), -1.5 and 0.3 (10066330 * 2^-25).
SampleValues ==
    { [m |-> 0, e |-> 0],
      F32_ONE,
      [m |-> 11184814, e |-> -24],
      [m |-> -12582912, e |-> -23],
      [m |-> 10066330, e |-> -25] }

\* The sample sequences of at most n samples.
Samples(n) == UNION {[1..k -> SampleValues] : k \in 0..n}

\* What the buffer may hold when a stop clones it: whole interleaved frames.
RawInputs(channels) ==
    {r \in Samples(MaxSamples) : r # <<>> /\ Len(r) % channels = 0}

\* The state after lines 195-208 of a stop_recording call that found samples.
PipelineInit ==
    /\ ControllerInit
    /\ stage = "downmix"
    /\ native_channels \in 1..MaxChannels
    /\ native_rate \in {d.rate : d \in DeviceConfigs}
    /\ raw_samples \in RawInputs(native_channels)
    /\ mono = <<>>
    /\ resampler = "unused"
    /\ resampled = <<>>
    /\ written = <<>>
    /\ wav_file = "none"
    /\ stop_result = "none"
    /\ transcription = [result |-> "none", remove_file |-> FALSE]

\* stop_recording returns r.
StopReturns(r) ==
    /\ stop_result' = r
    /\ stage' = "stopped"

\* Lines 217-221.
Downmix ==
    /\ stage = "downmix"
    /\ mono' = downmix(raw_samples, native_channels)
    /\ stage' = "resample"
    /\ UNCHANGED <<controller, raw_samples, native_rate, native_channels, resampler,
                   resampled, written, wav_file, stop_result, transcription>>

\* Line 316: ((mono_f64.len() - pos) as f64 * ratio).ceil(); the f64 product
\* is the exact one for the rates of DeviceConfigs.
expected_tail(remaining, source_rate) ==
    (remaining * TARGET_SAMPLE_RATE + source_rate - 1) \div source_rate

\* Lines 274-330: the outputs resample_to_16k may return with Ok. The sample
\* values and the length of what each process() call returns are the
\* resampler's; the code keeps all of a full chunk's output and at most
\* expected_tail samples of the zero-padded tail's.
resample_to_16k(input, source_rate) ==
    LET full == Len(input) \div chunk_size
        remaining == Len(input) % chunk_size
        tail == IF remaining > 0 THEN expected_tail(remaining, source_rate) ELSE 0
    IN  Samples(full * expected_tail(chunk_size, source_rate) + tail)

\* Resample that calls the resampler whatever the native rate is.
Resample_Always ==
    /\ stage = "resample"
    /\ UNCHANGED <<controller, raw_samples, native_rate, native_channels, mono,
                   written, wav_file, transcription>>
    /\ \/ /\ resampler' = "failed"
          /\ StopReturns("ResampleError")
          /\ UNCHANGED resampled
       \/ /\ resampler' = "used"
          /\ \E out \in resample_to_16k(mono, native_rate) : resampled' = out
          /\ stage' = "create"
          /\ UNCHANGED stop_result

\* Lines 223-228: mono is moved into resampled when the native rate is the
\* target rate; otherwise resample_to_16k, whose error fails the stop.
Resample ==
    /\ stage = "resample"
    /\ UNCHANGED <<controller, raw_samples, native_rate, native_channels, mono,
                   written, wav_file, transcription>>
    /\ IF native_rate = TARGET_SAMPLE_RATE
       THEN /\ resampled' = mono
            /\ stage' = "create"
            /\ UNCHANGED <<resampler, stop_result>>
       ELSE \/ /\ resampler' = "failed"
               /\ StopReturns("ResampleError")
               /\ UNCHANGED resampled
            \/ /\ resampler' = "used"
               /\ \E out \in resample_to_16k(mono, native_rate) : resampled' = out
               /\ stage' = "create"
               /\ UNCHANGED stop_result

\* Lines 231-247: cache directory, then hound::WavWriter::create.
CreateWav ==
    /\ stage = "create"
    /\ UNCHANGED <<controller, raw_samples, native_rate, native_channels, mono,
                   resampler, resampled, written, transcription>>
    /\ \/ /\ \E e \in {"CacheDirError", "CreateWavError"} : StopReturns(e)
          /\ UNCHANGED wav_file
       \/ /\ wav_file' = "open"
          /\ stage' = "write"
          /\ UNCHANGED stop_result

\* Lines 249-255: one iteration of the encode loop, or its end.
WriteSample ==
    /\ stage = "write"
    /\ UNCHANGED <<controller, raw_samples, native_rate, native_channels, mono,
                   resampler, resampled, wav_file, transcription>>
    /\ IF Len(written) < Len(resampled)
       THEN \/ /\ StopReturns("WriteError")
               /\ UNCHANGED written
            \/ /\ written' = Append(written, quantize(resampled[Len(written) + 1]))
               /\ UNCHANGED <<stage, stop_result>>
       ELSE /\ stage' = "finalize"
            /\ UNCHANGED <<written, stop_result>>

\* Finalize whose error is dropped (`let _ = writer.finalize()`).
Finalize_Unchecked ==
    /\ stage = "finalize"
    /\ UNCHANGED <<controller, raw_samples, native_rate, native_channels, mono,
                   resampler, resampled, written, transcription>>
    /\ stage' = "path"
    /\ UNCHANGED stop_result
    /\ \/ UNCHANGED wav_file
       \/ wav_file' = "finalized"

\* Lines 257-259: writer.finalize().
Finalize ==
    /\ stage = "finalize"
    /\ UNCHANGED <<controller, raw_samples, native_rate, native_channels, mono,
                   resampler, resampled, written, transcription>>
    /\ \/ /\ StopReturns("FinalizeError")
          /\ UNCHANGED wav_file
       \/ /\ wav_file' = "finalized"
          /\ stage' = "path"
          /\ UNCHANGED stop_result

\* Lines 261-270: wav_path.to_str(), then Ok(path_str).
ReturnPath ==
    /\ stage = "path"
    /\ \E r \in {"PathNotUtf8", "Path"} : StopReturns(r)
    /\ UNCHANGED <<controller, raw_samples, native_rate, native_channels, mono,
                   resampler, resampled, written, wav_file, transcription>>

\* ------------------------------------------------- transcribe_and_delete
\* transcribe_and_delete returns r.
TranscribeReturns(r) ==
    /\ transcription' = [transcription EXCEPT !.result = r]
    /\ stage' = "returned"

\* transcription.rs lines 27-31: called with the path stop_recording returned.
TranscribeExists ==
    /\ stage = "stopped"
    /\ stop_result = "Path"
    /\ IF wav_file \in {"open", "finalized"}
       THEN /\ stage' = "ensure_model"
            /\ UNCHANGED transcription
       ELSE TranscribeReturns("NotFound")
    /\ UNCHANGED <<controller, raw_samples, native_rate, native_channels, mono,
                   resampler, resampled, written, wav_file, stop_result>>

\* transcription.rs line 38: ensure_model(&app).await?
EnsureModel ==
    /\ stage = "ensure_model"
    /\ \/ TranscribeReturns("ModelError")
       \/ /\ stage' = "transcribe"
          /\ UNCHANGED transcription
    /\ UNCHANGED <<controller, raw_samples, native_rate, native_channels, mono,
                   resampler, resampled, written, wav_file, stop_result>>

\* transcription.rs lines 41-44: spawn_blocking(run_transcription).await,
\* `?` on the join error; the transcription's own Ok or Err is kept.
RunTranscription ==
    /\ stage = "transcribe"
    /\ \/ TranscribeReturns("TaskPanicked")
       \/ /\ \E r \in {"Text", "TranscriptionError"} :
                transcription' = [transcription EXCEPT !.result = r]
          /\ stage' = "remove"
    /\ UNCHANGED <<controller, raw_samples, native_rate, native_channels, mono,
                   resampler, resampled, written, wav_file, stop_result>>

\* transcription.rs lines 46-53: remove_file (its error is only logged), then
\* the transcription's result is returned.
RemoveFile ==
    /\ stage = "remove"
    /\ transcription' = [transcription EXCEPT !.remove_file = TRUE]
    /\ stage' = "returned"
    /\ \/ wav_file' = "removed"
       \/ UNCHANGED wav_file
    /\ UNCHANGED <<controller, raw_samples, native_rate, native_channels, mono,
                   resampler, resampled, written, stop_result>>

PipelineNext ==
    \/ Downmix
    \/ Resample
    \/ CreateWav
    \/ WriteSample
    \/ Finalize
    \/ ReturnPath
    \/ TranscribeExists
    \/ EnsureModel
    \/ RunTranscription
    \/ RemoveFile

PipelineSpec == PipelineInit /\ [][PipelineNext]_vars

\* ================================================================ claims
Threads == 1..Len(threads)

\* A session is in progress for thread t: it has not yet stored
\* IS_RECORDING = false.
InSession(t) == threads[t].pc \in {"setup", "play", "poll", "drop", "clear"}

\* What stop_recording returns once it is past its IS_RECORDING check.
StopPassedResults ==
    {"NoAudioCaptured", "ResampleError", "CacheDirError", "CreateWavError",
     "WriteError", "FinalizeError", "PathNotUtf8", "Path"}

\* C1: at most one recording session exists at a time: at most one capture
\* thread is in a session and at most one input stream is open, whatever the
\* interleaving of start and stop calls.
C1_SingleSession ==
    /\ Cardinality({t \in Threads : InSession(t)}) <= 1
    /\ Cardinality({t \in Threads : InSession(t) /\ Stream(t) # "none"}) <= 1

\* C2: a start made while IS_RECORDING is true returns AlreadyRecording and
\* leaves the buffer, both flags, the lock, the threads and the files as they are.
C2_AlreadyRecordingChangesNothing ==
    [][\A c \in Callers :
         (IS_RECORDING /\ StartCheck(c)) =>
            /\ pc'[c] = "idle"
            /\ result'[c] = "AlreadyRecording"
            /\ UNCHANGED <<IS_RECORDING, STOP_SIGNAL, RAW_AUDIO, lock, threads, files>>]_vars

C2_Witness ==
    \E c \in Callers :
        /\ result[c] = "AlreadyRecording"
        /\ IS_RECORDING
        /\ \E t \in Threads : Stream(t) = "playing"
        /\ RAW_AUDIO.samples # <<>>

\* C3 as claimed: a start that follows a start that returned Ok, with no stop
\* called in between, returns AlreadyRecording.
C3_SecondStartAlwaysRejected ==
    [][\A c \in Callers :
         (hist.lastOk /\ StartCheck(c)) => result'[c] = "AlreadyRecording"]_vars

\* C3 as amended: a start that follows a start that returned Ok, with no stop
\* called in between, returns AlreadyRecording unless a capture thread has
\* stored IS_RECORDING = false since IS_RECORDING was last set.
C3_SecondStartRejectedUnlessCleared ==
    [][\A c \in Callers :
         (hist.lastOk /\ ~hist.cleared /\ StartCheck(c)) =>
            /\ pc'[c] = "idle"
            /\ result'[c] = "AlreadyRecording"]_vars

C3_Witness ==
    \E c \in Callers :
        /\ result[c] = "AlreadyRecording"
        /\ hist.lastOk
        /\ ~hist.cleared
        /\ nstops = 0

\* C4: a stop made while IS_RECORDING is false returns NotRecording and leaves
\* both flags, the buffer, the lock, the threads and the files as they are.
C4_NotRecordingChangesNothing ==
    [][\A c \in Callers :
         (~IS_RECORDING /\ StopCheck(c)) =>
            /\ pc'[c] = "idle"
            /\ result'[c] = "NotRecording"
            /\ taken'[c] = <<>>
            /\ UNCHANGED <<IS_RECORDING, STOP_SIGNAL, RAW_AUDIO, lock, threads, files>>]_vars

C4_Witness ==
    \E c \in Callers :
        /\ result[c] = "NotRecording"
        /\ ~IS_RECORDING
        /\ ~STOP_SIGNAL
        /\ threads # <<>>

\* C5: once a stop that passed its check has returned, with no start setting
\* IS_RECORDING since that check and no start in progress, the controller is
\* Idle: IS_RECORDING is false (so that a following start is not rejected).
C5_IdleAfterStop ==
    \A c \in Callers :
        ( /\ pc[c] = "idle"
          /\ result[c] \in StopPassedResults
          /\ hist.fresh[c]
          /\ \A d \in Callers : ~InStart(d) )
            => ~IS_RECORDING

\* C6: every stop that passes its check returns: its poll loop loads
\* IS_RECORDING at most PollLimit times and is then left, also when no
\* capture thread ever stores IS_RECORDING = false.
C6_StopTerminates ==
    /\ [](\A c \in Callers : polls[c] <= PollLimit)
    /\ \A c \in Callers : (pc[c] = "stop_poll") ~> (pc[c] = "stop_lock")
    /\ \A c \in Callers : InStop(c) ~> (pc[c] = "idle")

C6_Witness ==
    \E c \in Callers :
        /\ pc[c] = "idle"
        /\ result[c] \in StopPassedResults
        /\ hist.fresh[c]
        /\ IS_RECORDING
        /\ \A t \in Threads : threads[t].pc = "setup"

\* C7: a stop that is about to lock RAW_AUDIO, or holds its lock, has stored
\* STOP_SIGNAL = true and then either loaded IS_RECORDING = false or run all
\* PollLimit iterations of its poll loop.
C7_ReadOnlyAfterPoll ==
    \A c \in Callers :
        (pc[c] \in {"stop_lock", "stop_read"} \/ (InStop(c) /\ lock = c)) =>
            /\ hist.signalled[c]
            /\ hist.exit[c] \in {"observed", "timeout"}

C7_Witness ==
    \E c \in Callers :
        /\ pc[c] = "stop_read"
        /\ lock = c
        /\ hist.exit[c] = "timeout"
        /\ RAW_AUDIO.samples # <<>>

\* C8: a capture thread whose setup fails (device, config, sample format,
\* build_input_stream, play) stores IS_RECORDING = false in that step, without
\* STOP_SIGNAL being touched; and IS_RECORDING is never left true with no
\* capture thread in a session and no start about to spawn one.
C8_SetupFailureEndsRecording ==
    /\ [][\A t \in Threads :
            (threads[t].pc \in {"setup", "play"} /\ threads'[t].pc \in {"failed", "return"})
                => (~IS_RECORDING' /\ UNCHANGED STOP_SIGNAL)]_vars
    /\ [](IS_RECORDING =>
            \/ \E t \in Threads : InSession(t)
            \/ \E c \in Callers : pc[c] = "start_spawn")

C8_Witness ==
    /\ \E t \in Threads : threads[t].pc = "failed"
    /\ \A t \in Threads : Exited(t)
    /\ ~IS_RECORDING
    /\ nstops = 0
    /\ \E c \in Callers : result[c] = "Ok"

\* C9: whenever IS_RECORDING is false, no capture thread still owns an input stream.
C9_NoStreamWhenNotRecording ==
    ~IS_RECORDING => \A t \in Threads : Stream(t) = "none"

\* C10: every capture thread was spawned by a start that had reset the buffer
\* (samples cleared, native rate and channels stored) and had stored both
\* flags; so every block in the buffer was appended after that reset.
C10_ResetBeforeSpawn ==
    /\ \A t \in Threads : threads[t].reset /\ threads[t].flags
    /\ Threads # {} =>
          \E d \in DeviceConfigs :
              /\ RAW_AUDIO.native_sample_rate = d.rate
              /\ RAW_AUDIO.native_channels = d.channels
    /\ \A i \in 1..Len(RAW_AUDIO.samples) :
          /\ RAW_AUDIO.samples[i].by \in Threads
          /\ threads[RAW_AUDIO.samples[i].by].reset

C10_Witness ==
    /\ RAW_AUDIO.samples # <<>>
    /\ \E t \in Threads : Stream(t) = "playing" /\ threads[t].reset

\* C11: the StopRead step of a stop that passed its check leaves
\* RAW_AUDIO.samples empty (the buffer is read and cleared under the lock), so
\* that no other stop can clone the same samples.
C11_DrainClears ==
    [][\A c \in Callers : StopRead(c) => RAW_AUDIO'.samples = <<>>]_vars

\* C12: a stop whose StopRead step finds RAW_AUDIO.samples empty returns
\* NoAudioCaptured in that step and creates no file.
C12_EmptyBufferFails ==
    [][\A c \in Callers :
         (RAW_AUDIO.samples = <<>> /\ StopRead(c)) =>
            /\ pc'[c] = "idle"
            /\ result'[c] = "NoAudioCaptured"
            /\ UNCHANGED files]_vars

C12_Witness ==
    \E c \in Callers :
        /\ result[c] = "NoAudioCaptured"
        /\ files = <<>>
        /\ \E t \in Threads : threads[t].pc = "done"

\* The blocks in s are in delivery order, each a block the driver delivered.
InDeliveryOrder(s) ==
    /\ \A i \in 1..Len(s) : s[i].seq \in 1..delivered
    /\ \A i, j \in 1..Len(s) : i < j => s[i].seq < s[j].seq

\* C13: the data callback never waits for the lock: it can run whenever its
\* stream is playing, whoever holds the lock; a run with the lock free appends
\* the delivered block after the existing samples, a run with the lock held
\* leaves RAW_AUDIO as it is, and no run keeps the lock. So the samples are
\* always whole delivered blocks in delivery order.
C13_CallbackNeverWaits ==
    /\ [](\A t \in Threads :
            (Stream(t) = "playing" /\ delivered < MaxBlocks) => ENABLED DataCallback(t))
    /\ [][\A t \in Threads :
            DataCallback(t) =>
               /\ lock' = lock
               /\ IF lock = "none"
                  THEN /\ Len(RAW_AUDIO'.samples) = Len(RAW_AUDIO.samples) + 1
                       /\ SubSeq(RAW_AUDIO'.samples, 1, Len(RAW_AUDIO.samples))
                              = RAW_AUDIO.samples
                       /\ RAW_AUDIO'.samples[Len(RAW_AUDIO'.samples)].seq = delivered'
                  ELSE UNCHANGED RAW_AUDIO]_vars
    /\ [](InDeliveryOrder(RAW_AUDIO.samples))

\* A block delivered while a stop held the lock was dropped.
C13_Witness ==
    /\ lock # "none"
    /\ nstarts = 1
    /\ delivered = 1
    /\ RAW_AUDIO.samples = <<>>
    /\ \E t \in Threads : Stream(t) = "playing"

\* C20: a start that fails its device pre-check (NoInputDevice, ConfigError)
\* leaves the buffer, both flags and the threads as they are.
C20_FailedPrecheckChangesNothing ==
    [][\A c \in Callers :
         (StartCheck(c) /\ result'[c] \in {"NoInputDevice", "ConfigError"}) =>
            /\ pc'[c] = "idle"
            /\ UNCHANGED <<IS_RECORDING, STOP_SIGNAL, RAW_AUDIO, lock, threads>>]_vars

C20_Witness ==
    \E c \in Callers :
        /\ result[c] \in {"NoInputDevice", "ConfigError"}
        /\ pc[c] = "idle"
        /\ RAW_AUDIO.samples # <<>>
        /\ RAW_AUDIO.native_sample_rate # 0
        /\ ~IS_RECORDING


\* What stop_recording returns when it fails after the buffer was read.
StopErrors ==
    {"ResampleError", "CacheDirError", "CreateWavError", "WriteError", "FinalizeError",
     "PathNotUtf8"}

\* C14: a stop that returned a path has had every sample of resampled
\* written and its file finalized before it returned; a stop that ended
\* with no file, an unfinalized file or samples missing returned an error.
C14_PathOnlyAfterFinalize ==
    /\ stop_result = "Path" =>
          /\ wav_file \in {"finalized", "removed"}
          /\ Len(written) = Len(resampled)
    /\ (stage = "stopped" /\ stop_result = "Path") => wav_file = "finalized"
    /\ (stage = "stopped" /\ (wav_file # "finalized" \/ Len(written) < Len(resampled)))
          => stop_result \in StopErrors

C14_Witness ==
    /\ stage = "stopped"
    /\ stop_result = "Path"
    /\ wav_file = "finalized"
    /\ Len(written) = MaxSamples

\* C15: a transcribe_and_delete call on an existing file has called
\* remove_file on it by the time it returns, whatever it returns.
C15_AlwaysRemoves ==
    (stage = "returned" /\ transcription.result # "NotFound")
        => transcription.remove_file

WithinOneUlp(a, b) ==
    \/ a = b
    \/ a.e = b.e /\ Abs(a.m - b.m) = 1
    \/ a.e = b.e + 1 /\ Abs(a.m) = 2^23 /\ b.m = Sign(a.m) * (2^24 - 1)
    \/ b.e = a.e + 1 /\ Abs(b.m) = 2^23 /\ a.m = Sign(b.m) * (2^24 - 1)

C17_ResampleOnlyWhenNeeded ==
    stage \notin {"idle", "downmix", "resample"} =>
        IF native_rate = TARGET_SAMPLE_RATE
        THEN /\ resampler = "unused"
             /\ resampled = mono
             /\ stop_result # "ResampleError"
        ELSE /\ resampler \in {"used", "failed"}
             /\ resampler = "failed" =>
                   /\ stage = "stopped"
                   /\ stop_result = "ResampleError"
                   /\ wav_file = "none"

C17_Witness ==
    /\ native_rate = TARGET_SAMPLE_RATE
    /\ stage = "stopped"
    /\ stop_result = "Path"
    /\ Len(mono) = MaxSamples
    /\ Len(written) = Len(mono)
    /\ mono[1] # mono[2]

\* round(c * 32767) for a sample c, as an exact integer computation (ties
\* away from zero): c beyond [-1, 1] counts as 1 or -1.
RoundedScaled(c) ==
    IF c.m = 0 THEN 0
    ELSE IF c.e > -23 \/ (c.e = -23 /\ Abs(c.m) > 2^23) THEN Sign(c.m) * 32767
    ELSE IF -c.e > 41 THEN 0
    ELSE LET s == -c.e
             hi == Abs(c.m) \div 4096
             lo == Abs(c.m) % 4096
             H == 2 * hi * 32767 + 2^(s - 12) + (2 * lo * 32767) \div 4096
         IN  Sign(c.m) * (H \div 2^(s - 11))

\* C19: the i-th value written is the quantization of the i-th sample of
\* resampled: it lies in -32767..32767 whatever the sample is, and it is
\* within 1 of the rounded value of the clamped sample times 32767.
C19_Quantization ==
    /\ Len(written) <= Len(resampled)
    /\ \A i \in 1..Len(written) :
          /\ written[i] \in -32767..32767
          /\ Abs(written[i] - RoundedScaled(resampled[i])) <= 1

\* A sample below -1.0 was clamped, and a sample was truncated where
\* rounding goes up.
C19_Witness ==
    /\ \E i \in 1..Len(written) :
          resampled[i] = [m |-> -12582912, e |-> -23] /\ written[i] = -32767
    /\ \E i \in 1..Len(written) :
          written[i] = 21844 /\ RoundedScaled(resampled[i]) = 21845


\* A stop that passed its IS_RECORDING check and has not read the buffer yet.
StopBeforeRead(c) == pc[c] \in {"stop_signal", "stop_poll", "stop_lock", "stop_read"}

\* C21: a stop stores STOP_SIGNAL = true only for the session that was
\* recording when it passed its check: no start has stored
\* IS_RECORDING = true (begun a new session) between the stop's check and
\* its store, so no later session is ended by it.
C21_StopSignalsOwnSession ==
    [][\A c \in Callers : StopSignal(c) => hist.fresh[c]]_vars

\* C22: the samples a stop reads are those of the session it stopped: no
\* start clears or replaces a non-empty buffer while a stop that passed its
\* check has yet to read it.
C22_DrainedSamplesOfStoppedSession ==
    [][\A c \in Callers :
         (StartReset(c) /\ RAW_AUDIO.samples # <<>>) =>
            \A d \in Callers : ~StopBeforeRead(d)]_vars

\* A capture thread that has not yet loaded STOP_SIGNAL = true in its poll loop.
ToObserve(t) == threads[t].pc \in {"setup", "play", "poll"}

\* C23: once a stop has stored STOP_SIGNAL = true, no start stores
\* STOP_SIGNAL = false while a capture thread has still to observe it.
C23_StopSignalKeptUntilObserved ==
    [][\A c \in Callers :
         (StartStoreStop(c) /\ STOP_SIGNAL /\ \E d \in Callers : hist.signalled[d]) =>
            \A t \in Threads : ~ToObserve(t)]_vars

\* C24: a stop that returned an error has left no file on disk.
C24_NoFileAfterError ==
    (stage = "stopped" /\ stop_result \in StopErrors) => wav_file = "none"

====
